---- MODULE Spec2Model ----
(***************************************************************************)
(* A model of fmc_noise: the Noise builder (src/src/lib.rs), the grid      *)
(* drivers generate_1d/2d/3d with their pipeline, and the multiversion     *)
(* dispatcher that the macros crate generates (src/macros/src).            *)
(*                                                                         *)
(* f32 values are modelled as exact extended rationals [n, d]:             *)
(*   d > 0        the finite value n/d in lowest terms,                    *)
(*   <<1, 0>>     +infinity,   <<-1, 0>>  -infinity,   <<0, 0>>  NaN.      *)
(* A finite result whose magnitude exceeds F32_MAX overflows to the        *)
(* infinity of its sign, as IEEE-754 does.  Rounding inside the finite     *)
(* range and the sign of zero are not modelled.                            *)
(***************************************************************************)
EXTENDS Integers, Sequences, FiniteSets, TLC

(* ------------------------------ bounds -------------------------------- *)
\* Longest pipeline the builder is followed to.
MaxPipe == 4
\* Largest octave count passed to fbm (0 is passed too).
MaxOctaves == 3
\* Largest extent of the axis generate_* walks in blocks of N lanes.
MaxInner == 9
\* Largest extent of every other axis.
MaxOuter == 2
\* Most resolutions of one kernel's dispatcher that are followed.
MaxResolutions == 2
\* Threads that call one kernel's dispatcher at the same time.
MaxThreads == 2
\* generate_* calls made one after the other on one Noise.
MaxCalls == 3

(* ------------------------- the f32 value model ------------------------ *)
\* f32::MAX, the largest finite value (the finite range is scaled down).
F32_MAX == 100

IAbs(i) == IF i < 0 THEN -i ELSE i

Sign(i) == IF i < 0 THEN -1 ELSE IF i > 0 THEN 1 ELSE 0

RECURSIVE Gcd(_, _)
Gcd(a, b) == IF b = 0 THEN a ELSE Gcd(b, a % b)

PosInf == [n |-> 1, d |-> 0]

NegInf == [n |-> -1, d |-> 0]

NaN == [n |-> 0, d |-> 0]

IsNaN(a) == a.d = 0 /\ a.n = 0

IsInf(a) == a.d = 0 /\ a.n # 0

IsFinite(a) == a.d > 0

\* The f32 nearest to the real n/d (d # 0): lowest terms, overflow to +-inf.
Mk(n, d) ==
    LET s == IF d < 0 THEN -1 ELSE 1
        g == Gcd(IAbs(n), IAbs(d))
        nn == (s * n) \div g
        dd == (s * d) \div g
    IN  IF IAbs(nn) > F32_MAX * dd
        THEN [n |-> Sign(nn), d |-> 0]
        ELSE [n |-> nn, d |-> dd]

F(i) == Mk(i, 1)

\* f32::MIN, the most negative finite value.
F32_MIN == F(-F32_MAX)

FNeg(a) == [n |-> -a.n, d |-> a.d]

FAdd(a, b) ==
    IF IsNaN(a) \/ IsNaN(b) THEN NaN
    ELSE IF IsInf(a) THEN (IF IsInf(b) /\ b.n # a.n THEN NaN ELSE a)
    ELSE IF IsInf(b) THEN b
    ELSE Mk(a.n * b.d + b.n * a.d, a.d * b.d)

FSub(a, b) == FAdd(a, FNeg(b))

FMul(a, b) ==
    IF IsNaN(a) \/ IsNaN(b) THEN NaN
    ELSE IF IsInf(a) \/ IsInf(b)
         THEN [n |-> Sign(a.n) * Sign(b.n), d |-> 0]
    ELSE Mk(a.n * b.n, a.d * b.d)

FDiv(a, b) ==
    IF IsNaN(a) \/ IsNaN(b) THEN NaN
    ELSE IF IsInf(a) THEN (IF IsInf(b) THEN NaN
                           ELSE [n |-> a.n * (IF b.n < 0 THEN -1 ELSE 1), d |-> 0])
    ELSE IF IsInf(b) THEN F(0)
    ELSE IF b.n = 0 THEN [n |-> Sign(a.n), d |-> 0]
    ELSE Mk(a.n * b.d, a.d * b.n)

\* a < b as f32 compares: false whenever either side is NaN.
FLt(a, b) ==
    /\ ~IsNaN(a)
    /\ ~IsNaN(b)
    /\ IF IsInf(a) THEN a.n < 0 /\ b # a
       ELSE IF IsInf(b) THEN b.n > 0
       ELSE a.n * b.d < b.n * a.d

FGt(a, b) == FLt(b, a)

\* f32::powi for an exponent >= 0.
RECURSIVE FPowi(_, _)
FPowi(a, k) == IF k <= 0 THEN F(1) ELSE FMul(a, FPowi(a, k - 1))

(* ------------------------------ state --------------------------------- *)
VARIABLES
    noise,      \* the Noise under construction / handed to generate_*: [seed, pipeline]
    status,     \* "empty" | "built" | "panicked" (fbm's assert fired)
    call,       \* the last builder call: [op, arg]
    compiled,   \* NoisePipeline::build's node list for the last generate_* call
    pc,         \* where the running generate_* call stands
    dim,        \* 1, 2, 3: which of generate_1d/2d/3d runs (0: none yet)
    vector_width, \* N, the lane width of the tier generate_* was dispatched to
    origin,     \* [x, y, z] as passed
    extent,     \* [width, height, depth] as passed
    result,     \* the output Vec<f32>
    cursor,     \* the write cursor, the local i
    min_s, max_s,           \* the vector accumulators
    min_scalar, max_scalar, \* the locals min and max
    pipeline_x, pipeline_y, pipeline_z,  \* NoisePipeline.x, .y, .z
    outer, mid, block,      \* iterations done of the loops, outermost first
    execs,      \* execute() calls made by the running generate_* call
    arch,       \* target_arch of the build
    enabled,    \* target features the build enables unconditionally
    detected,   \* features the running hardware reports
    resolutions, \* per kernel, what each call of its dispatcher returned, in order
    threads,    \* per thread inside a kernel's dispatcher: where it stands, what it got
    history,    \* the generate_* calls that returned: what was asked, what came back
    ev,         \* the last call of a node evaluator: its node, arguments and result
    rng,        \* NoisePipeline.rng: the stored seed and the current one
    drawn       \* what next() returned since the running execute() began, in order

builderVars == <<noise, status, call, compiled>>

driverVars ==
    <<pc, dim, vector_width, origin, extent, result, cursor, min_s, max_s, min_scalar,
      max_scalar, pipeline_x, pipeline_y, pipeline_z, outer, mid, block, execs>>

dispatchVars == <<arch, enabled, detected, resolutions>>

rngVars == <<rng, drawn>>

restVars == <<threads, history, ev, rngVars>>

vars == <<builderVars, driverVars, dispatchVars, restVars>>

NoNoise == [seed |-> 0, pipeline |-> <<>>]

\* Some of the multiversioned functions: two node functions and a driver.
Kernels == {"constant", "fbm", "generate_1d"}

\* A process in which no dispatcher has been called.
NoDispatch ==
    /\ arch = "x86_64"
    /\ enabled = {}
    /\ detected = {}
    /\ resolutions = [k \in Kernels |-> <<>>]

\* No thread in a dispatcher, no call returned, no evaluator called.
NoRest ==
    /\ threads = <<>>
    /\ history = <<>>
    /\ ev = [kind |-> "none"]
    /\ rng = [seed |-> 0, current_seed |-> 0]
    /\ drawn = <<>>

(* ------------------------- the Noise builder -------------------------- *)
FrequencyFrom(value) == [x |-> value, y |-> value, z |-> value]

simplex(frequency) ==
    [seed |-> 0, pipeline |-> <<[kind |-> "Simplex", frequency |-> frequency]>>]

perlin(frequency) ==
    [seed |-> 0, pipeline |-> <<[kind |-> "Perlin", frequency |-> frequency]>>]

constant(value) ==
    [seed |-> 0, pipeline |-> <<[kind |-> "Constant", value |-> value]>>]

seed(self, s) == [self EXCEPT !.seed = s]

\* lib.rs 150-153: the loop body, k times.
RECURSIVE ScaledAmplitudeLoop(_, _, _, _)
ScaledAmplitudeLoop(k, amp, scaled_amplitude, gain) ==
    IF k <= 0 THEN scaled_amplitude
    ELSE ScaledAmplitudeLoop(k - 1, FMul(amp, gain), FAdd(scaled_amplitude, amp), gain)

\* Mutant of ScaledAmplitude: the loop runs once too often (0..octaves).
ScaledAmplitudeOneMore(octaves, gain) ==
    FDiv(F(1), ScaledAmplitudeLoop(octaves, gain, F(1), gain))

\* lib.rs 148-154: for _ in 1..octaves, then the inversion.

ScaledAmplitude(octaves, gain) ==
    FDiv(F(1), ScaledAmplitudeLoop(octaves - 1, gain, F(1), gain))

ScaleFrequency(frequency, lacunarity) ==
    [x |-> FMul(frequency.x, lacunarity),
     y |-> FMul(frequency.y, lacunarity),
     z |-> FMul(frequency.z, lacunarity)]

\* lib.rs 161-181: for i in (1..octaves).rev(), with len the source's length.
RECURSIVE FbmCopies(_, _, _, _)
FbmCopies(pipeline, len, i, lacunarity) ==
    IF i < 1 THEN pipeline
    ELSE LET idx == (Len(pipeline) - len) + 1
             settings == pipeline[idx]
             scaled == IF settings.kind \in {"Simplex", "Perlin"}
                       THEN [pipeline EXCEPT ![idx].frequency =
                                ScaleFrequency(@, FPowi(lacunarity, i - 1))]
                       ELSE pipeline
         IN  FbmCopies(scaled \o SubSeq(scaled, 1, len), len, i - 1, lacunarity)

\* Mutant of FbmAssert: the assert is missing.
FbmAssertMissing(octaves) == TRUE

\* lib.rs 141: assert!(octaves > 0, ...).
FbmAssert(octaves) == octaves > 0

\* Noise::fbm past its assert.
\* Mutant of fbm: the source is kept once, whatever the octaves.
fbm_single_source(self, octaves, gain, lacunarity) ==
    [seed |-> self.seed,
     pipeline |->
        Append(self.pipeline,
               [kind |-> "Fbm", octaves |-> octaves, gain |-> gain,
                scaled_amplitude |-> ScaledAmplitude(octaves, gain)])]

fbm(self, octaves, gain, lacunarity) ==
    [seed |-> self.seed,
     pipeline |->
        Append(FbmCopies(self.pipeline, Len(self.pipeline), octaves - 1, lacunarity),
               [kind |-> "Fbm", octaves |-> octaves, gain |-> gain,
                scaled_amplitude |-> ScaledAmplitude(octaves, gain)])]

\* fbm.rs 23-33: the octave loop over the samples its source returned, in call order.
RECURSIVE FbmLoop(_, _, _, _, _)
FbmLoop(k, amplitude, sum, gain, samples) ==
    IF k > Len(samples) THEN sum
    ELSE FbmLoop(k + 1, FMul(amplitude, gain),
                 FAdd(sum, FMul(samples[k], amplitude)), gain, samples)

FbmAccumulate(settings, samples) ==
    FbmLoop(1, settings.scaled_amplitude, F(0), settings.gain, samples)

abs(self) == [self EXCEPT !.pipeline = Append(@, [kind |-> "Abs"])]

\* Mutant of add: the result takes the operand's seed.
add_seed_of_other(self, other) ==
    [seed |-> other.seed,
     pipeline |-> Append(self.pipeline \o other.pipeline, [kind |-> "Add"])]

add(self, other) ==
    [seed |-> self.seed,
     pipeline |-> Append(self.pipeline \o other.pipeline, [kind |-> "Add"])]

mul(self, other) ==
    [seed |-> self.seed,
     pipeline |-> Append(self.pipeline \o other.pipeline, [kind |-> "Mul"])]

clamp(self, min, max) ==
    [self EXCEPT !.pipeline = Append(@, [kind |-> "Clamp", min |-> min, max |-> max])]

max(self, other) ==
    [seed |-> self.seed,
     pipeline |-> Append(self.pipeline \o other.pipeline, [kind |-> "Max"])]

min(self, other) ==
    [seed |-> self.seed,
     pipeline |-> Append(self.pipeline \o other.pipeline, [kind |-> "Min"])]

\* Mutant of lerp: the low operand's nodes are not appended.
lerp_without_low(self, low, high) ==
    [seed |-> self.seed,
     pipeline |-> Append(self.pipeline \o high.pipeline, [kind |-> "Lerp"])]

lerp(self, low, high) ==
    [seed |-> self.seed,
     pipeline |-> Append((self.pipeline \o high.pipeline) \o low.pipeline,
                         [kind |-> "Lerp"])]

range(self, low, high, low_noise, high_noise) ==
    [seed |-> self.seed,
     pipeline |-> Append((self.pipeline \o high_noise.pipeline) \o low_noise.pipeline,
                         [kind |-> "Range", low |-> low, high |-> high])]

square(self) == [self EXCEPT !.pipeline = Append(@, [kind |-> "Square"])]

(* ------------------ inputs the builder is driven with ------------------ *)
Frequencies == {[x |-> F(1), y |-> F(2), z |-> F(3)]}

ConstValues == {F(1), F(-3)}

SeedValues == {3}

Gains == {Mk(1, 2), F(-1)}

Lacunarities == {F(2)}

ClampBounds == {[min |-> F(-1), max |-> F(1)]}

RangeBounds == {[low |-> F(-1), high |-> F(1)]}

\* The origins generate_* is called with.
Origins == {[x |-> 0, y |-> 0, z |-> 0], [x |-> 3, y |-> 5, z |-> 7]}

\* The noises passed as operands to add, mul, max, min, lerp and range.
Operands == {seed(constant(F(1)), 1), seed(simplex(FrequencyFrom(F(1))), 2)}

Fits(n) == Len(n.pipeline) <= MaxPipe

(* ---------------- NoisePipeline::build (lib.rs 464-505) ---------------- *)
Dimensions == {"X", "XY", "XYZ"}

NodeFunction(settings, dimensions) ==
    CASE settings.kind = "Simplex" ->
            (CASE dimensions = "X" -> "simplex_1d"
               [] dimensions = "XY" -> "simplex_2d"
               [] dimensions = "XYZ" -> "simplex_3d")
      [] settings.kind = "Perlin" ->
            (CASE dimensions = "X" -> "simplex_1d"
               [] dimensions = "XY" -> "perlin_2d"
               [] dimensions = "XYZ" -> "perlin_3d")
      [] settings.kind = "Constant" -> "constant"
      [] settings.kind = "Fbm" -> "fbm"
      [] settings.kind = "Abs" -> "abs"
      [] settings.kind = "Add" -> "add"
      [] settings.kind = "Mul" -> "mul"
      [] settings.kind = "Clamp" -> "clamp"
      [] settings.kind = "Max" -> "max"
      [] settings.kind = "Min" -> "min"
      [] settings.kind = "Lerp" -> "lerp"
      [] settings.kind = "Range" -> "range"
      [] settings.kind = "Square" -> "square"

build(n, dimensions) ==
    [k \in 1..Len(n.pipeline) |->
        [settings |-> n.pipeline[k],
         function |-> NodeFunction(n.pipeline[k], dimensions)]]

(* --------------------------- builder actions --------------------------- *)
Built(n, op, arg) ==
    /\ Fits(n)
    /\ noise' = n
    /\ status' = "built"
    /\ call' = [op |-> op, arg |-> arg]
    /\ compiled' = <<>>
    /\ UNCHANGED <<driverVars, dispatchVars, restVars>>

CallSimplex ==
    /\ status = "empty"
    /\ \E f \in Frequencies : Built(simplex(f), "simplex", 0)

CallPerlin ==
    /\ status = "empty"
    /\ \E f \in Frequencies : Built(perlin(f), "perlin", 0)

CallConstant ==
    /\ status = "empty"
    /\ \E v \in ConstValues : Built(constant(v), "constant", 0)

CallSeed ==
    /\ status = "built"
    /\ \E s \in SeedValues : Built(seed(noise, s), "seed", s)

\* Noise::fbm: the assert of line 141 unwinds before anything is returned.
CallFbm ==
    /\ status = "built"
    /\ \E octaves \in 0..MaxOctaves, gain \in Gains, lacunarity \in Lacunarities :
          IF FbmAssert(octaves)
          THEN Built(fbm(noise, octaves, gain, lacunarity), "fbm", octaves)
          ELSE /\ noise' = NoNoise
               /\ status' = "panicked"
               /\ call' = [op |-> "fbm", arg |-> octaves]
               /\ compiled' = <<>>
               /\ UNCHANGED <<driverVars, dispatchVars, restVars>>

CallAbs == status = "built" /\ Built(abs(noise), "abs", 0)

CallSquare == status = "built" /\ Built(square(noise), "square", 0)

CallClamp ==
    /\ status = "built"
    /\ \E b \in ClampBounds : Built(clamp(noise, b.min, b.max), "clamp", 0)

CallAdd ==
    /\ status = "built"
    /\ \E other \in Operands : Built(add(noise, other), "add", other.seed)

CallMul ==
    /\ status = "built"
    /\ \E other \in Operands : Built(mul(noise, other), "mul", other.seed)

CallMax ==
    /\ status = "built"
    /\ \E other \in Operands : Built(max(noise, other), "max", other.seed)

CallMin ==
    /\ status = "built"
    /\ \E other \in Operands : Built(min(noise, other), "min", other.seed)

CallLerp ==
    /\ status = "built"
    /\ \E low \in Operands : \E high \in Operands \ {low} :
          Built(lerp(noise, low, high), "lerp", low.seed)

CallRange ==
    /\ status = "built"
    /\ \E b \in RangeBounds, low_noise \in Operands :
          \E high_noise \in Operands \ {low_noise} :
          Built(range(noise, b.low, b.high, low_noise, high_noise), "range",
                low_noise.seed)

\* A generate_* call on the finished noise: its first step compiles the pipeline.
CallGenerate ==
    /\ status = "built"
    /\ \E dimensions \in Dimensions : compiled' = build(noise, dimensions)
    /\ UNCHANGED <<noise, status, call>>
    /\ UNCHANGED <<driverVars, dispatchVars, restVars>>

InitBuild ==
    /\ noise = NoNoise
    /\ status = "empty"
    /\ call = [op |-> "none", arg |-> 0]
    /\ compiled = <<>>
    /\ pc = "idle"
    /\ dim = 0
    /\ vector_width = 1
    /\ origin = [x |-> 0, y |-> 0, z |-> 0]
    /\ extent = [width |-> 0, height |-> 0, depth |-> 0]
    /\ result = <<>>
    /\ cursor = 0
    /\ min_s = <<>>
    /\ max_s = <<>>
    /\ min_scalar = F(0)
    /\ max_scalar = F(0)
    /\ pipeline_x = <<>>
    /\ pipeline_y = <<>>
    /\ pipeline_z = <<>>
    /\ outer = 0
    /\ mid = 0
    /\ block = 0
    /\ execs = 0
    /\ NoDispatch
    /\ NoRest

NextBuild ==
    \/ CallSimplex
    \/ CallPerlin
    \/ CallConstant
    \/ CallSeed
    \/ CallFbm
    \/ CallAbs
    \/ CallSquare
    \/ CallClamp
    \/ CallAdd
    \/ CallMul
    \/ CallMax
    \/ CallMin
    \/ CallLerp
    \/ CallRange
    \/ CallGenerate

SpecBuild == InitBuild /\ [][NextBuild]_vars

(* ------------------------- node evaluation ---------------------------- *)
FAbs(a) == [n |-> IAbs(a.n), d |-> a.d]

\* f32 simd_max / simd_min of one lane: a NaN operand yields the other one.
FMaxLane(a, b) == IF IsNaN(a) THEN b ELSE IF IsNaN(b) THEN a ELSE IF FLt(a, b) THEN b ELSE a

FMinLane(a, b) == IF IsNaN(a) THEN b ELSE IF IsNaN(b) THEN a ELSE IF FLt(b, a) THEN b ELSE a

\* The base kernels (simplex.rs, perlin.rs) are not part of the sources at hand:
\* a fixed function of kernel, seed and the frequency-scaled coordinate, in [-1, 1].
Lattice(kernel, sd, frequency, x, y, z) ==
    LET a == FMul(frequency.x, F(x))
        b == FMul(frequency.y, F(y))
        c == FMul(frequency.z, F(z))
        h == a.n + 2 * b.n + 4 * c.n + a.d + b.d + c.d + sd
             + (IF kernel = "perlin" THEN 1 ELSE 0)
    IN  Mk((h % 5) - 2, 2)

Pop(stack, k) == SubSeq(stack, 1, Len(stack) - k)

Top(stack, k) == stack[Len(stack) - k]

\* One node function on one lane: what it leaves on pipeline.results.
ExecNode(node, stack, sd, x, y, z) ==
    LET f == node.function
        s == node.settings
    IN  CASE f = "constant" -> Append(stack, s.value)
          [] f = "simplex_1d" -> Append(stack, Lattice("simplex", sd, s.frequency, x, 0, 0))
          [] f = "simplex_2d" -> Append(stack, Lattice("simplex", sd, s.frequency, x, y, 0))
          [] f = "simplex_3d" -> Append(stack, Lattice("simplex", sd, s.frequency, x, y, z))
          [] f = "perlin_2d" -> Append(stack, Lattice("perlin", sd, s.frequency, x, y, 0))
          [] f = "perlin_3d" -> Append(stack, Lattice("perlin", sd, s.frequency, x, y, z))
          [] f = "abs" -> Append(Pop(stack, 1), FAbs(Top(stack, 0)))
          [] f = "square" -> Append(Pop(stack, 1), FMul(Top(stack, 0), Top(stack, 0)))
          [] f = "add" -> Append(Pop(stack, 2), FAdd(Top(stack, 1), Top(stack, 0)))
          [] f = "mul" -> Append(Pop(stack, 2), FMul(Top(stack, 1), Top(stack, 0)))
          [] f = "max" -> Append(Pop(stack, 2), FMaxLane(Top(stack, 1), Top(stack, 0)))
          [] f = "min" -> Append(Pop(stack, 2), FMinLane(Top(stack, 1), Top(stack, 0)))
          [] f = "fbm" ->
                Append(Pop(stack, s.octaves),
                       FbmAccumulate(s, [k \in 1..s.octaves |-> Top(stack, k - 1)]))

RECURSIVE RunNodes(_, _, _, _, _, _, _)
RunNodes(nodes, k, stack, sd, x, y, z) ==
    IF k > Len(nodes) THEN stack
    ELSE RunNodes(nodes, k + 1, ExecNode(nodes[k], stack, sd, x, y, z), sd, x, y, z)

\* NoisePipeline::execute on one lane: run from node 0, pop the result.
ExecuteLane(nodes, sd, x, y, z) == Top(RunNodes(nodes, 1, <<>>, sd, x, y, z), 0)

(* ------------------ generate_1d / generate_2d / generate_3d ------------ *)
Lanes == 1..vector_width

Splat(v) == [j \in Lanes |-> v]

\* Mutant of LaneArray: every lane holds the start.
LaneArrayNoOffset(start) == [j \in Lanes |-> start]

\* x_arr / y_arr: start + i as f32 for each lane i.
LaneArray(start) == [j \in Lanes |-> start + (j - 1)]

SimdAdd(v, k) == [j \in Lanes |-> v[j] + k]

\* Mutant of execute: the rng is seeded by the number of calls made so far too.
execute_call_dependent ==
    [j \in Lanes |->
        ExecuteLane(compiled, noise.seed + Len(history), pipeline_x[j], pipeline_y[j],
                    pipeline_z[j])]

\* pipeline.execute() with the coordinates the pipeline holds.
execute ==
    [j \in Lanes |->
        ExecuteLane(compiled, noise.seed, pipeline_x[j], pipeline_y[j], pipeline_z[j])]

\* A cell of the Vec that set_len exposed and nothing wrote yet.
Uninit == [n |-> 0, d |-> -1]

\* Vec::with_capacity(len) then set_len(len).
NewResult(len) == [k \in 1..len |-> Uninit]

\* f.copy_to_slice(&mut result[i..]): all N lanes, from the cursor on.
CopyToSlice(buf, at, f) ==
    [k \in 1..Len(buf) |->
        IF k > at /\ k <= at + vector_width THEN f[k - at] ELSE buf[k]]

\* The remainder loop's writes: lanes 0..remainder, from the cursor on.
WriteLanes(buf, at, f, remainder) ==
    [k \in 1..Len(buf) |->
        IF k > at /\ k <= at + remainder THEN f[k - at] ELSE buf[k]]

\* if n < min { min = n } for the lanes j..last of f, in order.
RECURSIVE FoldMin(_, _, _, _)
FoldMin(m, f, j, last) ==
    IF j > last THEN m
    ELSE FoldMin(IF FLt(f[j], m) THEN f[j] ELSE m, f, j + 1, last)

\* if n > max { max = n } for the lanes j..last of f, in order.
RECURSIVE FoldMax(_, _, _, _)
FoldMax(m, f, j, last) ==
    IF j > last THEN m
    ELSE FoldMax(IF FGt(f[j], m) THEN f[j] ELSE m, f, j + 1, last)

SimdMax(a, b) == [j \in Lanes |-> FMaxLane(a[j], b[j])]

SimdMin(a, b) == [j \in Lanes |-> FMinLane(a[j], b[j])]

\* Mutant of MinSentinel: min starts at 0.0.
MinSentinelZero == F(0)

\* The initial value of min and of every lane of min_s: f32::MAX.
MinSentinel == F(F32_MAX)

\* The initial value of max and of every lane of max_s: f32::MIN.
MaxSentinel == F32_MIN

ResultLen1d(width) == width

ResultLen2d(width, height) == width * height

\* Mutant of ResultLen3d: the depth is left out.
ResultLen3dFlat(width, height, depth) == width * height

ResultLen3d(width, height, depth) == width * height * depth

Remainder(len) == len % vector_width

\* Mutant of FullBlocks: the partial block counts as a full one.
FullBlocksRoundedUp(len) == (len + vector_width - 1) \div vector_width

FullBlocks(len) == len \div vector_width

\* The locals every generate_* sets up before its loops.
Setup(d, x, y, z, width, height, depth, len) ==
    /\ pc = "idle"
    /\ dim' = d
    /\ origin' = [x |-> x, y |-> y, z |-> z]
    /\ extent' = [width |-> width, height |-> height, depth |-> depth]
    /\ min_s' = Splat(MinSentinel)
    /\ max_s' = Splat(MaxSentinel)
    /\ min_scalar' = MinSentinel
    /\ max_scalar' = MaxSentinel
    /\ result' = NewResult(len)
    /\ cursor' = 0
    /\ outer' = 0
    /\ mid' = 0
    /\ block' = 0
    /\ execs' = 0
    /\ UNCHANGED <<noise, status, call, vector_width, dispatchVars, restVars>>

\* A full block: execute, fold into min_s / max_s, copy N lanes, advance.
FullBlock ==
    LET f == execute
    IN  /\ max_s' = SimdMax(max_s, f)
        /\ min_s' = SimdMin(min_s, f)
        /\ result' = CopyToSlice(result, cursor, f)
        /\ cursor' = cursor + vector_width
        /\ block' = block + 1
        /\ execs' = execs + 1
        /\ UNCHANGED <<min_scalar, max_scalar>>

\* if remainder != 0 { execute; write the leading lanes; advance }.
RemainderWrites(remainder) ==
    IF remainder # 0
    THEN /\ result' = WriteLanes(result, cursor, execute, remainder)
         /\ cursor' = cursor + remainder
         /\ execs' = execs + 1
    ELSE UNCHANGED <<result, cursor, execs>>

\* Mutant of RemainderMin: the comparisons run over all N lanes.
RemainderMinAllLanes(remainder) ==
    IF remainder # 0 THEN FoldMin(min_scalar, execute, 1, vector_width) ELSE min_scalar

\* min and max after the remainder loop's comparisons.
RemainderMin(remainder) ==
    IF remainder # 0 THEN FoldMin(min_scalar, execute, 1, remainder) ELSE min_scalar

RemainderMax(remainder) ==
    IF remainder # 0 THEN FoldMax(max_scalar, execute, 1, remainder) ELSE max_scalar

\* The closing loop over the lanes of min_s and max_s, from (min0, max0).
ReduceMin(min0) == FoldMin(min0, min_s, 1, vector_width)

ReduceMax(max0) == FoldMax(max0, max_s, 1, vector_width)

frame ==
    <<noise, status, call, compiled, dim, vector_width, origin, extent, dispatchVars, restVars>>

\* generate_1d, lines 531-553.
Call1d(o, width) ==
    /\ Setup(1, o.x, 0, 0, width, 0, 0, ResultLen1d(width))
    /\ compiled' = build(noise, "X")
    /\ pipeline_x' = LaneArray(o.x)
    /\ pipeline_y' = Splat(0)
    /\ pipeline_z' = Splat(0)
    /\ pc' = "inner"

Generate1d == \E o \in Origins, width \in 0..MaxInner : Call1d(o, width)

\* generate_1d, lines 554-561: one iteration.
Block1d ==
    /\ pc = "inner" /\ dim = 1
    /\ block < FullBlocks(extent.width)
    /\ FullBlock
    /\ pipeline_x' = SimdAdd(pipeline_x, vector_width)
    /\ UNCHANGED <<frame, pc, pipeline_y, pipeline_z, outer, mid>>

\* generate_1d, lines 562-586: the remainder, the reduction, the return.
Finish1d ==
    /\ pc = "inner" /\ dim = 1
    /\ block = FullBlocks(extent.width)
    /\ RemainderWrites(Remainder(extent.width))
    /\ min_scalar' = ReduceMin(RemainderMin(Remainder(extent.width)))
    /\ max_scalar' = ReduceMax(RemainderMax(Remainder(extent.width)))
    /\ pc' = "done"
    /\ UNCHANGED <<frame, min_s, max_s, pipeline_x, pipeline_y, pipeline_z, outer, mid,
                   block>>

\* generate_2d, lines 597-620.
Call2d(o, width, height) ==
    /\ Setup(2, o.x, o.y, 0, width, height, 0, ResultLen2d(width, height))
    /\ compiled' = build(noise, "XY")
    /\ pipeline_x' = Splat(0)
    /\ pipeline_y' = Splat(o.y)
    /\ pipeline_z' = Splat(0)
    /\ pc' = "outer"

Generate2d ==
    \E o \in Origins, width \in 0..MaxInner, height \in 0..MaxOuter :
        Call2d(o, width, height)

\* generate_2d, lines 621-622 and 649-657: the head of for _ in 0..height, and
\* past its end the reduction and the return.
Row2d ==
    /\ pc = "outer" /\ dim = 2
    /\ IF outer < extent.height
       THEN /\ pipeline_x' = LaneArray(origin.x)
            /\ block' = 0
            /\ pc' = "inner"
            /\ UNCHANGED <<min_scalar, max_scalar>>
       ELSE /\ min_scalar' = ReduceMin(min_scalar)
            /\ max_scalar' = ReduceMax(max_scalar)
            /\ pc' = "done"
            /\ UNCHANGED <<pipeline_x, block>>
    /\ UNCHANGED <<frame, result, cursor, min_s, max_s, pipeline_y, pipeline_z, outer,
                   mid, execs>>

\* generate_2d, lines 623-630: one iteration.
Block2d ==
    /\ pc = "inner" /\ dim = 2
    /\ block < FullBlocks(extent.width)
    /\ FullBlock
    /\ pipeline_x' = SimdAdd(pipeline_x, vector_width)
    /\ UNCHANGED <<frame, pc, pipeline_y, pipeline_z, outer, mid>>

\* generate_2d, lines 631-647: the row's remainder, then pipeline.y += 1.
EndRow2d ==
    /\ pc = "inner" /\ dim = 2
    /\ block = FullBlocks(extent.width)
    /\ RemainderWrites(Remainder(extent.width))
    /\ min_scalar' = RemainderMin(Remainder(extent.width))
    /\ max_scalar' = RemainderMax(Remainder(extent.width))
    /\ pipeline_y' = SimdAdd(pipeline_y, 1)
    /\ outer' = outer + 1
    /\ pc' = "outer"
    /\ UNCHANGED <<frame, min_s, max_s, pipeline_x, pipeline_z, mid, block>>

\* generate_3d, lines 676-701.
Call3d(o, width, height, depth) ==
    /\ Setup(3, o.x, o.y, o.z, width, height, depth,
             ResultLen3d(width, height, depth))
    /\ compiled' = build(noise, "XYZ")
    /\ pipeline_x' = Splat(o.x)
    /\ pipeline_y' = Splat(0)
    /\ pipeline_z' = Splat(0)
    /\ pc' = "outer"

Generate3d ==
    \E o \in Origins, width \in 0..MaxOuter, height \in 0..MaxInner,
       depth \in 0..MaxOuter :
        Call3d(o, width, height, depth)

\* generate_3d, lines 702-703 and 734-742: the head of for _ in 0..width, and
\* past its end the reduction and the return.
Slice3d ==
    /\ pc = "outer" /\ dim = 3
    /\ IF outer < extent.width
       THEN /\ pipeline_z' = Splat(origin.z)
            /\ mid' = 0
            /\ pc' = "mid"
            /\ UNCHANGED <<min_scalar, max_scalar>>
       ELSE /\ min_scalar' = ReduceMin(min_scalar)
            /\ max_scalar' = ReduceMax(max_scalar)
            /\ pc' = "done"
            /\ UNCHANGED <<pipeline_z, mid>>
    /\ UNCHANGED <<frame, result, cursor, min_s, max_s, pipeline_x, pipeline_y, outer,
                   block, execs>>

\* generate_3d, lines 704-705 and 732: the head of for _ in 0..depth, and past
\* its end pipeline.x += 1.
Column3d ==
    /\ pc = "mid" /\ dim = 3
    /\ IF mid < extent.depth
       THEN /\ pipeline_y' = LaneArray(origin.y)
            /\ block' = 0
            /\ pc' = "inner"
            /\ UNCHANGED <<pipeline_x, outer>>
       ELSE /\ pipeline_x' = SimdAdd(pipeline_x, 1)
            /\ outer' = outer + 1
            /\ pc' = "outer"
            /\ UNCHANGED <<pipeline_y, block>>
    /\ UNCHANGED <<frame, result, cursor, min_s, max_s, min_scalar, max_scalar,
                   pipeline_z, mid, execs>>

\* generate_3d, lines 706-713: one iteration.
Block3d ==
    /\ pc = "inner" /\ dim = 3
    /\ block < FullBlocks(extent.height)
    /\ FullBlock
    /\ pipeline_y' = SimdAdd(pipeline_y, vector_width)
    /\ UNCHANGED <<frame, pc, pipeline_x, pipeline_z, outer, mid>>

\* generate_3d, lines 714-730: the column's remainder, then pipeline.z += 1.
EndColumn3d ==
    /\ pc = "inner" /\ dim = 3
    /\ block = FullBlocks(extent.height)
    /\ RemainderWrites(Remainder(extent.height))
    /\ min_scalar' = RemainderMin(Remainder(extent.height))
    /\ max_scalar' = RemainderMax(Remainder(extent.height))
    /\ pipeline_z' = SimdAdd(pipeline_z, 1)
    /\ mid' = mid + 1
    /\ pc' = "mid"
    /\ UNCHANGED <<frame, min_s, max_s, pipeline_x, pipeline_y, outer, block>>

\* The noises generate_* is called on: each is built by the calls shown.
GenNoises ==
    {constant(PosInf),
     constant(Mk(1, 2)),
     simplex([x |-> F(1), y |-> F(2), z |-> F(3)]),
     seed(perlin([x |-> F(1), y |-> F(2), z |-> F(3)]), 3),
     abs(add(simplex(FrequencyFrom(F(1))), seed(constant(F(-3)), 1))),
     fbm(constant(F(1)), 2, Mk(1, 2), F(2))}

\* The lane widths of the tiers: avx2+fma, sse4.2 / sse2 / neon, the default.
LaneWidths == {8, 4, 1}

Init ==
    /\ noise \in GenNoises
    /\ status = "built"
    /\ call = [op |-> "none", arg |-> 0]
    /\ compiled = <<>>
    /\ pc = "idle"
    /\ dim = 0
    /\ vector_width \in LaneWidths
    /\ origin = [x |-> 0, y |-> 0, z |-> 0]
    /\ extent = [width |-> 0, height |-> 0, depth |-> 0]
    /\ result = <<>>
    /\ cursor = 0
    /\ min_s = <<>>
    /\ max_s = <<>>
    /\ min_scalar = F(0)
    /\ max_scalar = F(0)
    /\ pipeline_x = <<>>
    /\ pipeline_y = <<>>
    /\ pipeline_z = <<>>
    /\ outer = 0
    /\ mid = 0
    /\ block = 0
    /\ execs = 0
    /\ NoDispatch
    /\ NoRest

Next ==
    \/ Generate1d
    \/ Block1d
    \/ Finish1d
    \/ Generate2d
    \/ Row2d
    \/ Block2d
    \/ EndRow2d
    \/ Generate3d
    \/ Slice3d
    \/ Column3d
    \/ Block3d
    \/ EndColumn3d

Spec == Init /\ [][Next]_vars

(* ------------------ several calls on the same Noise -------------------- *)
\* The noises the calls are repeated on.
RepeatNoises ==
    {seed(perlin([x |-> F(1), y |-> F(2), z |-> F(3)]), 3),
     abs(add(simplex(FrequencyFrom(F(1))), seed(constant(F(-3)), 1)))}

\* The extents of the repeated calls: one with a remainder at N = 4 and N = 8.
RepeatExtent == [inner |-> 5, outer |-> 2]

\* A further call, on the same &Noise: the public generate_1d / 2d / 3d.
Again1d ==
    /\ Len(history) < MaxCalls
    /\ \E o \in Origins : Call1d(o, RepeatExtent.inner)

Again2d ==
    /\ Len(history) < MaxCalls
    /\ \E o \in Origins : Call2d(o, RepeatExtent.inner, RepeatExtent.outer)

Again3d ==
    /\ Len(history) < MaxCalls
    /\ \E o \in Origins : Call3d(o, 1, RepeatExtent.inner, RepeatExtent.outer)

\* The call returns (result, min, max) to its caller, who keeps it.
Return ==
    /\ pc = "done"
    /\ history' = Append(history,
                     [noise |-> noise, dim |-> dim, origin |-> origin, extent |-> extent,
                      result |-> result, min |-> min_scalar, max |-> max_scalar])
    /\ pc' = "idle"
    /\ UNCHANGED <<builderVars, dim, vector_width, origin, extent, result, cursor, min_s,
                   max_s, min_scalar, max_scalar, pipeline_x, pipeline_y, pipeline_z,
                   outer, mid, block, execs, dispatchVars, threads, ev, rngVars>>

InitRepeat == Init /\ noise \in RepeatNoises

NextRepeat ==
    \/ Again1d
    \/ Again2d
    \/ Again3d
    \/ Return
    \/ Block1d
    \/ Finish1d
    \/ Row2d
    \/ Block2d
    \/ EndRow2d
    \/ Slice3d
    \/ Column3d
    \/ Block3d
    \/ EndColumn3d

SpecRepeat == InitRepeat /\ [][NextRepeat]_vars

(* ------------------------------ dispatch ------------------------------- *)
\* What with_feature_str adds along with a feature (the implied features).
Implies(f) ==
    CASE f = "avx2" -> {"avx"}
      [] f = "fma" -> {"avx"}
      [] f = "avx" -> {"sse4.2"}
      [] f = "sse4.2" -> {"sse4.1"}
      [] f = "sse4.1" -> {"ssse3"}
      [] f = "ssse3" -> {"sse3"}
      [] f = "sse3" -> {"sse2"}
      [] f = "sse2" -> {"sse"}
      [] OTHER -> {}

RECURSIVE WithFeatures(_)
WithFeatures(fs) ==
    LET more == fs \cup UNION {Implies(f) : f \in fs}
    IN  IF more = fs THEN fs ELSE WithFeatures(more)

\* Target::new: the architecture and the features with all they imply.
Target(architecture, features) ==
    [architecture |-> architecture, features |-> WithFeatures(features)]

\* make_multiversioned_fn's target list, in priority order.
Targets ==
    << Target("x86_64", {"avx2", "fma"}),
       Target("x86_64", {"sse4.2"}),
       Target("x86", {"avx2", "fma"}),
       Target("x86", {"sse4.2"}),
       Target("x86", {"sse2"}),
       Target("aarch64", {"neon"}) >>

\* The default version, which belongs to no target.
DefaultVersion == [architecture |-> "any", features |-> {}]

has_features_specified(target) == target.features # {}

\* is_*_feature_detected!: true for a feature the build enables, else asks the
\* hardware.
IsFeatureDetected(f) == f \in enabled \/ f \in detected

\* Mutant of features_detected: one detected feature is enough.
SomeFeatureDetected(target) == \E f \in target.features : IsFeatureDetected(f)

\* Target::features_detected: true && every feature of the target is detected.
features_detected(target) == \A f \in target.features : IsFeatureDetected(f)

\* The generated body: the targets' blocks in order, each compiled in only under
\* its target_arch; the first whose features are detected returns its version.
RECURSIVE ReturnIfDetected(_)
ReturnIfDetected(i) ==
    IF i > Len(Targets) THEN DefaultVersion
    ELSE IF /\ has_features_specified(Targets[i])
            /\ Targets[i].architecture = arch
            /\ features_detected(Targets[i])
         THEN Targets[i]
         ELSE ReturnIfDetected(i + 1)

pointer_dispatcher_fn == ReturnIfDetected(1)

\* best_targets: the reversed list collected into a map by architecture, so
\* that the entry left for an architecture is its first target in the list.
RECURSIVE BestTargets(_, _)
BestTargets(i, map) ==
    IF i = 0 THEN map
    ELSE BestTargets(i - 1,
             [a \in DOMAIN map \cup {Targets[i].architecture} |->
                 IF a = Targets[i].architecture THEN Targets[i] ELSE map[a]])

best_targets == BestTargets(Len(Targets), << >>)

specified_arches == DOMAIN best_targets

\* Mutant of SkipDispatch: any tier of the architecture the build supports
\* will do.
SkipDispatchAnyTier ==
    \/ arch \notin specified_arches
    \/ \E i \in 1..Len(Targets) :
          /\ Targets[i].architecture = arch
          /\ \A feature \in Targets[i].features : feature \in enabled

\* The cfg under which the generated function is only `return default`.
SkipDispatch ==
    \/ arch \notin specified_arches
    \/ \E a \in specified_arches :
          /\ arch = a
          /\ \A feature \in best_targets[a].features : feature \in enabled

\* Mutant of create_fn: what a call returns depends on the calls before it.
create_fn_forgetful(kernel) ==
    IF resolutions[kernel] = << >>
    THEN [version |-> pointer_dispatcher_fn, probed |-> TRUE]
    ELSE [version |-> DefaultVersion, probed |-> FALSE]

\* One call of the function create_fn generates for a kernel: the version it
\* returns, and whether it ran feature detection to find it.
create_fn(kernel) ==
    IF SkipDispatch
    THEN [version |-> DefaultVersion, probed |-> FALSE]
    ELSE [version |-> pointer_dispatcher_fn, probed |-> TRUE]

\* __multiversion::FEATURES of a version: the build's target with the
\* version's features added.
FEATURES(version) == WithFeatures(enabled \cup version.features)

\* Target::suggested_simd_width::<f32>() of the target_features crate, 0 for
\* None: 256-bit vectors with avx, 128-bit ones with sse or neon.
suggested_simd_width(features) ==
    IF "avx" \in features THEN 8
    ELSE IF "sse" \in features \/ "neon" \in features THEN 4
    ELSE 0

\* const N of generate_*: the suggested width, or 1.
N(version) ==
    IF suggested_simd_width(FEATURES(version)) # 0
    THEN suggested_simd_width(FEATURES(version))
    ELSE 1

Arches == {"x86_64", "x86", "aarch64", "riscv64"}

\* Feature sets of x86 hardware and builds: closed under implication, and one
\* with a feature masked out.
X86Sets ==
    { {}, WithFeatures({"sse2"}), WithFeatures({"sse4.2"}), WithFeatures({"avx2"}),
      WithFeatures({"avx2", "fma"}), WithFeatures({"sse2"}) \cup {"avx2", "fma"} }

\* The feature sets an architecture's hardware and builds can have; x86_64
\* always has sse2.
FeatureSets(a) ==
    CASE a = "x86_64" -> {fs \in X86Sets : "sse2" \in fs}
      [] a = "x86" -> X86Sets
      [] a = "aarch64" -> { {}, {"neon"} }
      [] OTHER -> { {} }

\* A kernel's dispatcher is called, as build does for every node and the
\* public generate_* do for their driver.
Resolve ==
    \E kernel \in Kernels :
        /\ Len(resolutions[kernel]) < MaxResolutions
        /\ resolutions' =
              [resolutions EXCEPT ![kernel] = Append(@, create_fn(kernel))]
        /\ UNCHANGED <<arch, enabled, detected>>
        /\ UNCHANGED <<builderVars, driverVars, restVars>>

\* A process starts: on some hardware, from a build for some architecture with
\* some features enabled, which the hardware it runs on has.
InitDispatch ==
    /\ noise = NoNoise
    /\ status = "empty"
    /\ call = [op |-> "none", arg |-> 0]
    /\ compiled = <<>>
    /\ pc = "idle"
    /\ dim = 0
    /\ vector_width = 1
    /\ origin = [x |-> 0, y |-> 0, z |-> 0]
    /\ extent = [width |-> 0, height |-> 0, depth |-> 0]
    /\ result = <<>>
    /\ cursor = 0
    /\ min_s = <<>>
    /\ max_s = <<>>
    /\ min_scalar = F(0)
    /\ max_scalar = F(0)
    /\ pipeline_x = <<>>
    /\ pipeline_y = <<>>
    /\ pipeline_z = <<>>
    /\ outer = 0
    /\ mid = 0
    /\ block = 0
    /\ execs = 0
    /\ arch \in Arches
    /\ detected \in FeatureSets(arch)
    /\ enabled \in {fs \in FeatureSets(arch) : fs \subseteq detected}
    /\ resolutions = [k \in Kernels |-> <<>>]
    /\ NoRest

NextDispatch == Resolve

SpecDispatch == InitDispatch /\ [][NextDispatch]_vars

(* ----------------- one dispatcher, several threads -------------------- *)
Threads == 1..MaxThreads

NoVersion == [architecture |-> "none", features |-> {}]

\* Mutant of Cursor: a later thread starts further down the chain.
CursorSkewed(t) == threads[t].i + (t - 1)

\* Where thread t stands in the generated body: a local of its own call.
Cursor(t) == threads[t].i

\* Thread t calls the dispatcher: the body compiled in is either `return
\* default` or the chain of target blocks.
Enter(t) ==
    /\ threads[t].pc = "idle"
    /\ threads' =
          [threads EXCEPT ![t] =
              IF SkipDispatch
              THEN [pc |-> "done", i |-> 0, version |-> DefaultVersion]
              ELSE [pc |-> "chain", i |-> 1, version |-> NoVersion]]
    /\ UNCHANGED <<builderVars, driverVars, dispatchVars, history, ev, rngVars>>

\* Thread t reaches the next block of the chain, or the `return default` at
\* its end.
TestTarget(t) ==
    /\ threads[t].pc = "chain"
    /\ threads' =
          [threads EXCEPT ![t] =
              IF Cursor(t) > Len(Targets)
              THEN [pc |-> "done", i |-> @.i, version |-> DefaultVersion]
              ELSE IF /\ has_features_specified(Targets[Cursor(t)])
                      /\ Targets[Cursor(t)].architecture = arch
                      /\ features_detected(Targets[Cursor(t)])
                   THEN [pc |-> "done", i |-> @.i, version |-> Targets[Cursor(t)]]
                   ELSE [pc |-> "chain", i |-> @.i + 1, version |-> NoVersion]]
    /\ UNCHANGED <<builderVars, driverVars, dispatchVars, history, ev, rngVars>>

InitConcurrent ==
    /\ noise = NoNoise
    /\ status = "empty"
    /\ call = [op |-> "none", arg |-> 0]
    /\ compiled = <<>>
    /\ pc = "idle"
    /\ dim = 0
    /\ vector_width = 1
    /\ origin = [x |-> 0, y |-> 0, z |-> 0]
    /\ extent = [width |-> 0, height |-> 0, depth |-> 0]
    /\ result = <<>>
    /\ cursor = 0
    /\ min_s = <<>>
    /\ max_s = <<>>
    /\ min_scalar = F(0)
    /\ max_scalar = F(0)
    /\ pipeline_x = <<>>
    /\ pipeline_y = <<>>
    /\ pipeline_z = <<>>
    /\ outer = 0
    /\ mid = 0
    /\ block = 0
    /\ execs = 0
    /\ arch \in Arches
    /\ detected \in FeatureSets(arch)
    /\ enabled \in {fs \in FeatureSets(arch) : fs \subseteq detected}
    /\ resolutions = [k \in Kernels |-> <<>>]
    /\ threads = [t \in Threads |-> [pc |-> "idle", i |-> 0, version |-> NoVersion]]
    /\ history = <<>>
    /\ ev = [kind |-> "none"]
    /\ rng = [seed |-> 0, current_seed |-> 0]
    /\ drawn = <<>>

NextConcurrent == \E t \in Threads : Enter(t) \/ TestTarget(t)

SpecConcurrent == InitConcurrent /\ [][NextConcurrent]_vars

(* ------------------- the node evaluators (tree form) ------------------- *)
\* a <= b as f32 compares.
FLe(a, b) == ~IsNaN(a) /\ ~IsNaN(b) /\ ~FLt(b, a)

\* StdFloat::mul_add: a * b + c with no overflow in between.
FMulAdd(a, b, c) ==
    IF IsFinite(a) /\ IsFinite(b) /\ IsFinite(c)
    THEN Mk(a.n * b.n * c.d + c.n * a.d * b.d, a.d * b.d * c.d)
    ELSE FAdd(FMul(a, b), c)

\* The coordinates an evaluator of a rank passes on: x, then y, then z.
Coordinates(rank, c) ==
    [x |-> c.x,
     y |-> IF rank >= 2 THEN c.y ELSE F(0),
     z |-> IF rank >= 3 THEN c.z ELSE F(0)]

\* The base noise evaluators are not part of the sources at hand: a fixed
\* function of the coordinates they are passed, in [-1, 1].
BaseNoise(c) == Mk(((c.x.n + 2 * c.y.n + 4 * c.z.n + c.x.d + c.y.d + c.z.d) % 5) - 2, 2)

\* Mutant of RangeLane: the two selects are applied in the other order.
RangeLaneHighLast(low, high, selection_noise, low_noise, high_noise) ==
    LET ratio == FDiv(FSub(selection_noise, low), FSub(high, low))
        interpolation == FMulAdd(FSub(high_noise, low_noise), ratio, low_noise)
        first == IF FLt(selection_noise, low) THEN low_noise ELSE interpolation
    IN  IF FGt(selection_noise, high) THEN high_noise ELSE first

\* Mutant of RangeLane: the selector is not shifted by low before the division.
RangeLaneUnshifted(low, high, selection_noise, low_noise, high_noise) ==
    LET ratio == FDiv(selection_noise, FSub(high, low))
        interpolation == FMulAdd(FSub(high_noise, low_noise), ratio, low_noise)
        first == IF FGt(selection_noise, high) THEN high_noise ELSE interpolation
    IN  IF FLt(selection_noise, low) THEN low_noise ELSE first

\* Mutant of RangeLane: the low select is left out.
RangeLaneNoLowSelect(low, high, selection_noise, low_noise, high_noise) ==
    LET ratio == FDiv(FSub(selection_noise, low), FSub(high, low))
        interpolation == FMulAdd(FSub(high_noise, low_noise), ratio, low_noise)
    IN  IF FGt(selection_noise, high) THEN high_noise ELSE interpolation

\* range_1d / range_2d / range_3d from the three sampled lanes on.
RangeLane(low, high, selection_noise, low_noise, high_noise) ==
    LET high_clipped == FGt(selection_noise, high)
        low_clipped == FLt(selection_noise, low)
        ratio == FDiv(FSub(selection_noise, low), FSub(high, low))
        interpolation == FMulAdd(FSub(high_noise, low_noise), ratio, low_noise)
        first == IF high_clipped THEN high_noise ELSE interpolation
    IN  IF low_clipped THEN low_noise ELSE first

\* lerp_1d, lerp_2d, lerp_3d from the three sampled lanes on.
lerp_1d(selector, low, high) ==
    LET interpolation == FMulAdd(selector, Mk(1, 2), F(1))
    IN  FMulAdd(FSub(high, low), interpolation, low)

lerp_2d(selector, low, high) ==
    LET range_ == FSub(high, low)
        interpolation == FMul(FAdd(selector, F(1)), Mk(1, 2))
    IN  FMul(range_, interpolation)

lerp_3d(selector, low_noise, high_noise) ==
    LET interpolation == FMul(FAdd(selector, F(1)), Mk(1, 2))
    IN  FMulAdd(FSub(high_noise, low_noise), interpolation, low_noise)

LerpLane(rank, selector, low, high) ==
    CASE rank = 1 -> lerp_1d(selector, low, high)
      [] rank = 2 -> lerp_2d(selector, low, high)
      [] rank = 3 -> lerp_3d(selector, low, high)

\* simd_clamp asserts min <= max in every lane, and panics otherwise.
ClampPanics(min_, max_) == ~FLe(min_, max_)

\* Mutant of ClampLane: only the lower bound is applied.
ClampLaneBelowOnly(min_, max_, x) == IF FLt(x, min_) THEN min_ ELSE x

\* simd_clamp past its assert: x < min selects min, then x > max selects max.
ClampLane(min_, max_, x) ==
    LET lower == IF FLt(x, min_) THEN min_ ELSE x
    IN  IF FGt(lower, max_) THEN max_ ELSE lower

\* Mutant of SquareLane: the source is not multiplied by itself.
SquareLaneOnce(source_result) == source_result

SquareLane(source_result) == FMul(source_result, source_result)

\* Mutant of FbmNextAmplitude: the gain is not applied.
FbmSameAmplitude(amplitude, gain) == amplitude

\* fbm_*: amplitude *= gain.
FbmNextAmplitude(amplitude, gain) == FMul(amplitude, gain)

\* fbm_1d: x *= lacunarity; fbm_2d: x and y; fbm_3d: x, y and z.
FbmNextCoordinates(rank, c, lacunarity) ==
    [x |-> FMul(c.x, lacunarity),
     y |-> IF rank >= 2 THEN FMul(c.y, lacunarity) ELSE c.y,
     z |-> IF rank >= 3 THEN FMul(c.z, lacunarity) ELSE c.z]

\* One lane of a node's evaluator of the given rank at coordinate c.  An Fbm
\* node yields its result along with the coordinates of its source calls.
RECURSIVE EvalNode(_, _, _)
RECURSIVE FbmOctaves(_, _, _, _, _, _, _)
FbmOctaves(node, rank, left, amplitude, sum, c, calls) ==
    IF left = 0 THEN [result |-> sum, calls |-> calls]
    ELSE LET noise_ == EvalNode(node.source, rank, c)
         IN  FbmOctaves(node, rank, left - 1,
                        FbmNextAmplitude(amplitude, node.gain),
                        FAdd(sum, FMul(noise_, amplitude)),
                        FbmNextCoordinates(rank, c, node.lacunarity),
                        Append(calls, Coordinates(rank, c)))

EvalNode(node, rank, c) ==
    CASE node.kind = "Base" -> BaseNoise(Coordinates(rank, c))
      [] node.kind = "Constant" -> node.value
      [] node.kind = "Abs" -> FAbs(EvalNode(node.source, rank, c))
      [] node.kind = "Square" -> SquareLane(EvalNode(node.source, rank, c))
      [] node.kind = "Clamp" ->
            ClampLane(node.min, node.max, EvalNode(node.source, rank, c))
      [] node.kind = "Lerp" ->
            LerpLane(rank, EvalNode(node.selector, rank, c),
                     EvalNode(node.low_source, rank, c),
                     EvalNode(node.high_source, rank, c))
      [] node.kind = "Range" ->
            RangeLane(node.low, node.high, EvalNode(node.selector, rank, c),
                      EvalNode(node.low_source, rank, c),
                      EvalNode(node.high_source, rank, c))
      [] node.kind = "Fbm" ->
            FbmOctaves(node, rank, node.octaves, node.scale, F(0), c, <<>>).result

\* Whether evaluating the node panics: a Clamp whose bounds simd_clamp rejects.
RECURSIVE Panics(_)
Panics(node) ==
    CASE node.kind \in {"Base", "Constant"} -> FALSE
      [] node.kind = "Clamp" -> ClampPanics(node.min, node.max) \/ Panics(node.source)
      [] node.kind \in {"Abs", "Square", "Fbm"} -> Panics(node.source)
      [] node.kind \in {"Lerp", "Range"} ->
            Panics(node.selector) \/ Panics(node.low_source) \/ Panics(node.high_source)

ConstantNode(value) == [kind |-> "Constant", value |-> value]

BaseNode == [kind |-> "Base"]

\* The sources and selectors: base noise, constants of every sort of f32, and
\* a node over base noise.
Sources ==
    {BaseNode, [kind |-> "Abs", source |-> BaseNode]}
    \cup {ConstantNode(v) : v \in {F(-2), Mk(-1, 2), F(0), F(1), F(3), PosInf, NegInf, NaN}}

\* The low and high branches.
Branches ==
    {BaseNode, ConstantNode(F(-2)), ConstantNode(F(3)), ConstantNode(NaN),
     ConstantNode(F(-60)), ConstantNode(F(60))}

FiniteBranches == {BaseNode, ConstantNode(F(-2)), ConstantNode(F(3))}

\* The bounds of Range and Clamp: in order, reversed, equal, and not a number.
Bounds ==
    { [low |-> Mk(-1, 2), high |-> Mk(1, 2)], [low |-> Mk(1, 2), high |-> Mk(-1, 2)],
      [low |-> F(0), high |-> F(0)], [low |-> NaN, high |-> F(1)] }

\* The blocks of coordinates: two lanes along x, rising or falling, y and z
\* splat.
Blocks ==
    { [x |-> <<F(0), F(1)>>, y |-> F(0), z |-> F(0)],
      [x |-> <<F(2), F(1)>>, y |-> F(0), z |-> F(0)],
      [x |-> <<F(3), F(4)>>, y |-> F(1), z |-> F(2)] }

Ranks == {1, 2, 3}

LaneCoordinate(b, j) == [x |-> b.x[j], y |-> b.y, z |-> b.z]

\* A call of the node's evaluator of a rank on a block: what it returns in
\* each lane, unless it panics.
Evaluate(node, rank, b) ==
    /\ ev' = [kind |-> node.kind, node |-> node, rank |-> rank, block |-> b,
              panicked |-> Panics(node),
              out |-> IF Panics(node) THEN <<>>
                      ELSE [j \in 1..Len(b.x) |-> EvalNode(node, rank, LaneCoordinate(b, j))],
              calls |-> IF node.kind = "Fbm" /\ ~Panics(node)
                        THEN [j \in 1..Len(b.x) |->
                                 FbmOctaves(node, rank, node.octaves, node.scale, F(0),
                                            LaneCoordinate(b, j), <<>>).calls]
                        ELSE <<>>]
    /\ UNCHANGED <<builderVars, driverVars, dispatchVars, threads, history, rngVars>>

EvalConstant ==
    /\ ev.kind = "none"
    /\ \E rank \in Ranks, b \in Blocks, v \in {Mk(1, 2), F(-3), PosInf} :
        Evaluate(ConstantNode(v), rank, b)

EvalAbs ==
    /\ ev.kind = "none"
    /\ \E rank \in Ranks, b \in Blocks, source \in Sources :
        Evaluate([kind |-> "Abs", source |-> source], rank, b)

EvalSquare ==
    /\ ev.kind = "none"
    /\ \E rank \in Ranks, b \in Blocks, source \in Sources :
        Evaluate([kind |-> "Square", source |-> source], rank, b)

EvalClamp ==
    /\ ev.kind = "none"
    /\ \E rank \in Ranks, b \in Blocks, source \in Sources, bd \in Bounds :
        Evaluate([kind |-> "Clamp", min |-> bd.low, max |-> bd.high, source |-> source],
                 rank, b)

EvalLerp ==
    /\ ev.kind = "none"
    /\ \E rank \in Ranks, b \in Blocks, selector \in Sources,
       low_source \in FiniteBranches, high_source \in FiniteBranches :
        Evaluate([kind |-> "Lerp", selector |-> selector, low_source |-> low_source,
                  high_source |-> high_source], rank, b)

EvalRange ==
    /\ ev.kind = "none"
    /\ \E rank \in Ranks, b \in Blocks, selector \in Sources, bd \in Bounds,
       low_source \in Branches, high_source \in Branches :
        Evaluate([kind |-> "Range", low |-> bd.low, high |-> bd.high,
                  selector |-> selector, low_source |-> low_source,
                  high_source |-> high_source], rank, b)

EvalFbm ==
    /\ ev.kind = "none"
    /\ \E rank \in Ranks, b \in Blocks, octaves \in 1..MaxOctaves, gain \in Gains,
       lacunarity \in {F(2), Mk(1, 2)}, scale \in {F(1), Mk(4, 7)},
       source \in {BaseNode, ConstantNode(F(3)), [kind |-> "Abs", source |-> BaseNode]} :
        Evaluate([kind |-> "Fbm", octaves |-> octaves, gain |-> gain,
                  lacunarity |-> lacunarity, scale |-> scale, source |-> source], rank, b)

InitEval ==
    /\ noise = NoNoise
    /\ status = "empty"
    /\ call = [op |-> "none", arg |-> 0]
    /\ compiled = <<>>
    /\ pc = "idle"
    /\ dim = 0
    /\ vector_width = 1
    /\ origin = [x |-> 0, y |-> 0, z |-> 0]
    /\ extent = [width |-> 0, height |-> 0, depth |-> 0]
    /\ result = <<>>
    /\ cursor = 0
    /\ min_s = <<>>
    /\ max_s = <<>>
    /\ min_scalar = F(0)
    /\ max_scalar = F(0)
    /\ pipeline_x = <<>>
    /\ pipeline_y = <<>>
    /\ pipeline_z = <<>>
    /\ outer = 0
    /\ mid = 0
    /\ block = 0
    /\ execs = 0
    /\ NoDispatch
    /\ NoRest

NextEval ==
    \/ EvalConstant
    \/ EvalAbs
    \/ EvalSquare
    \/ EvalClamp
    \/ EvalLerp
    \/ EvalRange
    \/ EvalFbm

SpecEval == InitEval /\ [][NextEval]_vars

(* ----------------- the drivers under the dispatched width -------------- *)
\* Mutant of SelectedWidth: the width of the build's own target, whatever the
\* dispatcher returned.
DefaultWidth == N(DefaultVersion)

\* The N compiled into the version of generate_* that the dispatcher returns.
SelectedWidth == N(create_fn("generate_1d").version)

\* A process on some hardware, from some build, holding a built Noise: its
\* generate_* calls run the version the dispatcher selects.
InitWidth ==
    /\ noise = seed(simplex([x |-> F(1), y |-> F(2), z |-> F(3)]), 3)
    /\ status = "built"
    /\ call = [op |-> "none", arg |-> 0]
    /\ compiled = <<>>
    /\ pc = "idle"
    /\ dim = 0
    /\ arch \in Arches
    /\ detected \in FeatureSets(arch)
    /\ enabled \in {fs \in FeatureSets(arch) : fs \subseteq detected}
    /\ resolutions = [k \in Kernels |-> <<>>]
    /\ vector_width = SelectedWidth
    /\ origin = [x |-> 0, y |-> 0, z |-> 0]
    /\ extent = [width |-> 0, height |-> 0, depth |-> 0]
    /\ result = <<>>
    /\ cursor = 0
    /\ min_s = <<>>
    /\ max_s = <<>>
    /\ min_scalar = F(0)
    /\ max_scalar = F(0)
    /\ pipeline_x = <<>>
    /\ pipeline_y = <<>>
    /\ pipeline_z = <<>>
    /\ outer = 0
    /\ mid = 0
    /\ block = 0
    /\ execs = 0
    /\ NoRest

NextWidth ==
    \/ Generate1d
    \/ Block1d
    \/ Finish1d
    \/ Generate2d
    \/ Row2d
    \/ Block2d
    \/ EndRow2d

SpecWidth == InitWidth /\ [][NextWidth]_vars

(* ------------------------- Rng (lib.rs 745-772) ------------------------ *)
\* The generator's words are u64; the model keeps 8 bits of them, and of the
\* two constants of next() their low 8 bits.
RngModulus == 256

RngIncrement == 165

RngMask == 201

RECURSIVE BitXor(_, _)
BitXor(a, b) ==
    IF a = 0 THEN b
    ELSE IF b = 0 THEN a
    ELSE 2 * BitXor(a \div 2, b \div 2) + (((a % 2) + (b % 2)) % 2)

\* `as i32` of a word: its low half, the top bit of that the sign.
AsHalfSigned(word) ==
    LET low == word % 16
    IN  IF low >= 8 THEN low - 16 ELSE low

\* t = seed * (seed ^ mask) in twice the width; (t as word) ^ (t >> width).
Mix(seed_) ==
    LET t == seed_ * BitXor(seed_, RngMask)
    IN  AsHalfSigned(BitXor(t % RngModulus, t \div RngModulus))

RngNew(seed_) == [seed |-> seed_ % RngModulus, current_seed |-> seed_ % RngModulus]

\* Rng::next: the generator after the call, and what the call returns.
RngNextState(r) ==
    [r EXCEPT !.current_seed = (r.current_seed + RngIncrement) % RngModulus]

RngNextOutput(r) == Mix(RngNextState(r).current_seed)

\* Mutant of RngReset: the current seed is left where next() took it.
RngResetNothing(r) == r

\* Rng::reset.
RngReset(r) == [r EXCEPT !.current_seed = r.seed]

MaxDraws == 4

RngSeeds == 0..7

\* NoisePipeline::execute down to its call of the first node: index = 0 and
\* rng.reset().
BeginExecute ==
    /\ execs < MaxCalls
    /\ rng' = RngReset(rng)
    /\ drawn' = <<>>
    /\ execs' = execs + 1
    /\ UNCHANGED <<builderVars, pc, dim, vector_width, origin, extent, result, cursor,
                   min_s, max_s, min_scalar, max_scalar, pipeline_x, pipeline_y,
                   pipeline_z, outer, mid, block, dispatchVars, threads, history, ev>>

\* A base noise kernel of the running execute() draws from the generator.
DrawNext ==
    /\ execs >= 1
    /\ Len(drawn) < MaxDraws
    /\ rng' = RngNextState(rng)
    /\ drawn' = Append(drawn, RngNextOutput(rng))
    /\ UNCHANGED <<builderVars, driverVars, dispatchVars, threads, history, ev>>

\* After NoisePipeline::build: rng = Rng::new(noise.seed).
InitRng ==
    /\ \E s \in RngSeeds : noise = seed(simplex(FrequencyFrom(F(1))), s)
    /\ status = "built"
    /\ call = [op |-> "none", arg |-> 0]
    /\ compiled = build(noise, "X")
    /\ pc = "idle"
    /\ dim = 0
    /\ vector_width = 1
    /\ origin = [x |-> 0, y |-> 0, z |-> 0]
    /\ extent = [width |-> 0, height |-> 0, depth |-> 0]
    /\ result = <<>>
    /\ cursor = 0
    /\ min_s = <<>>
    /\ max_s = <<>>
    /\ min_scalar = F(0)
    /\ max_scalar = F(0)
    /\ pipeline_x = <<>>
    /\ pipeline_y = <<>>
    /\ pipeline_z = <<>>
    /\ outer = 0
    /\ mid = 0
    /\ block = 0
    /\ execs = 0
    /\ NoDispatch
    /\ threads = <<>>
    /\ history = <<>>
    /\ ev = [kind |-> "none"]
    /\ rng = RngNew(noise.seed)
    /\ drawn = <<>>

NextRng == BeginExecute \/ DrawNext

SpecRng == InitRng /\ [][NextRng]_vars

(* ------------------------- claims on the builder ----------------------- *)
FbmSettings(pipeline) ==
    {pipeline[k] : k \in {j \in 1..Len(pipeline) : pipeline[j].kind = "Fbm"}}

\* C6: fbm with octaves = 0 fails at construction, by a panic that yields no
\* expression, so that no Fbm node with octaves = 0 is in any noise or in any
\* pipeline compiled for generate_*, and the failure is never met while evaluating.
C6_ZeroOctavesFailAtConstruction ==
    /\ \A f \in FbmSettings(noise.pipeline) : f.octaves >= 1
    /\ \A k \in 1..Len(compiled) :
          compiled[k].settings.kind = "Fbm" => compiled[k].settings.octaves >= 1
    /\ (call.op = "fbm" /\ call.arg = 0)
          => (status = "panicked" /\ noise = NoNoise /\ compiled = <<>>)
    /\ status = "panicked" => (call.op = "fbm" /\ call.arg = 0)

C6_Witness == status = "panicked" /\ call.op = "fbm" /\ call.arg = 0

\* The sum of gain^i for i = 0..octaves-1, term by term.
RECURSIVE GeometricSum(_, _)
GeometricSum(gain, octaves) ==
    IF octaves <= 0 THEN F(0)
    ELSE FAdd(GeometricSum(gain, octaves - 1), FPowi(gain, octaves - 1))

\* The noise is constant(c).fbm(octaves, ..): the copies of the source, then Fbm.
IsFbmOverConstant(pipeline) ==
    /\ Len(pipeline) >= 2
    /\ pipeline[Len(pipeline)].kind = "Fbm"
    /\ Len(pipeline) = pipeline[Len(pipeline)].octaves + 1
    /\ \A k \in 1..(Len(pipeline) - 1) : pipeline[k].kind = "Constant"

\* What the Fbm node of such a noise returns: each call of its source yields c.
FbmOverConstant(pipeline) ==
    FbmAccumulate(pipeline[Len(pipeline)],
                  [k \in 1..(Len(pipeline) - 1) |-> pipeline[k].value])

C8_SeedFromReceiver ==
    [][(status = "built" /\ status' = "built")
         => IF call'.op = "seed"
            THEN noise'.seed = call'.arg
            ELSE noise'.seed = noise.seed]_vars

C8_Witness ==
    /\ status = "built"
    /\ call.op \in {"add", "mul", "max", "min", "lerp", "range"}
    /\ call.arg # noise.seed
    /\ noise.seed = 3

\* A step that is a call of fbm past its assert.
FbmStep == status = "built" /\ status' = "built" /\ call'.op = "fbm" /\ noise' # noise

\* The source with every Simplex and Perlin node's frequency times a factor.
LeavesScaled(pipeline, factor) ==
    [k \in 1..Len(pipeline) |->
        IF pipeline[k].kind \in {"Simplex", "Perlin"}
        THEN [pipeline[k] EXCEPT !.frequency = ScaleFrequency(@, factor)]
        ELSE pipeline[k]]

\* The copies for octaves i, i - 1, .. 0 in that order, the copy for octave j
\* scaled by lacunarity^j.
RECURSIVE OctaveCopies(_, _, _)
OctaveCopies(pipeline, i, lacunarity) ==
    IF i < 0 THEN <<>>
    ELSE LeavesScaled(pipeline, FPowi(lacunarity, i))
            \o OctaveCopies(pipeline, i - 1, lacunarity)

\* C19: fbm(octaves, gain, lacunarity) leaves octaves copies of the source
\* followed by the Fbm node, the copy for octave i with every Simplex and
\* Perlin frequency times lacunarity^i, from the most lacunarized copy down
\* to the unscaled one.
C19_FbmCopiesLacunarized ==
    [][FbmStep
         => \E lacunarity \in Lacunarities :
               /\ Len(noise'.pipeline) = call'.arg * Len(noise.pipeline) + 1
               /\ noise'.pipeline[Len(noise'.pipeline)].kind = "Fbm"
               /\ SubSeq(noise'.pipeline, 1, Len(noise'.pipeline) - 1)
                     = OctaveCopies(noise.pipeline, call'.arg - 1, lacunarity)]_vars

OwnEvaluator(settings, dimensions) ==
    CASE settings.kind = "Simplex" ->
            (CASE dimensions = "X" -> "simplex_1d"
               [] dimensions = "XY" -> "simplex_2d"
               [] dimensions = "XYZ" -> "simplex_3d")
      [] settings.kind = "Perlin" ->
            (CASE dimensions = "X" -> "perlin_1d"
               [] dimensions = "XY" -> "perlin_2d"
               [] dimensions = "XYZ" -> "perlin_3d")
      [] settings.kind = "Constant" -> "constant"
      [] settings.kind = "Fbm" -> "fbm"
      [] settings.kind = "Abs" -> "abs"
      [] settings.kind = "Add" -> "add"
      [] settings.kind = "Mul" -> "mul"
      [] settings.kind = "Clamp" -> "clamp"
      [] settings.kind = "Max" -> "max"
      [] settings.kind = "Min" -> "min"
      [] settings.kind = "Lerp" -> "lerp"
      [] settings.kind = "Range" -> "range"
      [] settings.kind = "Square" -> "square"

\* C23: compilation yields one compiled node per node of the expression, in
\* the same order with the same settings, each with the evaluator of its own
\* variant for the requested rank.
C23_CompiledNodeForNode ==
    compiled # <<>> =>
        /\ Len(compiled) = Len(noise.pipeline)
        /\ \A k \in 1..Len(compiled) : compiled[k].settings = noise.pipeline[k]
        /\ \E dimensions \in Dimensions :
              \A k \in 1..Len(compiled) :
                  compiled[k].function = OwnEvaluator(compiled[k].settings, dimensions)

\* What a node takes from the stack before it pushes its one result.
Consumed(settings) ==
    CASE settings.kind \in {"Simplex", "Perlin", "Constant"} -> 0
      [] settings.kind \in {"Abs", "Square", "Clamp"} -> 1
      [] settings.kind \in {"Add", "Mul", "Max", "Min"} -> 2
      [] settings.kind \in {"Lerp", "Range"} -> 3
      [] settings.kind = "Fbm" -> settings.octaves

\* The height of the stack after nodes k .. Len(pipeline), from a height on;
\* -1 once a node has found too few values.
RECURSIVE StackAfter(_, _, _)
StackAfter(pipeline, k, height) ==
    IF height < 0 \/ k > Len(pipeline) THEN height
    ELSE IF height < Consumed(pipeline[k]) THEN -1
    ELSE StackAfter(pipeline, k + 1, height - Consumed(pipeline[k]) + 1)

\* C28: every Noise the builder returns holds a non-empty postfix program
\* whose first node is a leaf and whose simulation never underflows and ends
\* with exactly one value on the stack.
C28_WellFormedPostfix ==
    status = "built" =>
        /\ Len(noise.pipeline) >= 1
        /\ noise.pipeline[1].kind \in {"Simplex", "Perlin", "Constant"}
        /\ StackAfter(noise.pipeline, 1, 0) = 1

C28_Witness ==
    /\ status = "built"
    /\ call.op = "lerp"
    /\ Len(noise.pipeline) = 4
    /\ noise.pipeline[4].kind = "Lerp"
    /\ StackAfter(noise.pipeline, 1, 0) = 1
    /\ StackAfter(noise.pipeline, 1, 0) # StackAfter(SubSeq(noise.pipeline, 1, 3), 1, 0)

(* ------------------------ claims on the drivers ------------------------ *)
Returned == pc = "done"

\* What the compiled expression evaluates to at a coordinate.
ValueAt(x, y, z) == ExecuteLane(compiled, noise.seed, x, y, z)

\* C1: generate_1d returns exactly width elements, generate_2d width * height
\* and generate_3d width * height * depth, for every expression and extent.
C1_BufferLength ==
    Returned =>
        /\ dim = 1 => Len(result) = extent.width
        /\ dim = 2 => Len(result) = extent.width * extent.height
        /\ dim = 3 => Len(result) = extent.width * extent.height * extent.depth

C1_Witness ==
    /\ Returned
    /\ dim = 3
    /\ extent = [width |-> 2, height |-> 5, depth |-> 2]
    /\ Len(result) = 20

\* C2: in generate_2d's buffer the element at flat index x * height + y is the
\* expression's value at (x0 + x, y0 + y), for all 0 <= x < width, 0 <= y < height.
C2_Index2d ==
    (Returned /\ dim = 2) =>
        \A x \in 0..(extent.width - 1), y \in 0..(extent.height - 1) :
            /\ x * extent.height + y + 1 \in 1..Len(result)
            /\ result[x * extent.height + y + 1]
                  = ValueAt(origin.x + x, origin.y + y, 0)

\* C3: in generate_3d's buffer the element at flat index
\* x * depth * height + z * height + y is the expression's value at
\* (x0 + x, y0 + y, z0 + z), for all x < width, y < height, z < depth.
C3_Index3d ==
    (Returned /\ dim = 3) =>
        \A x \in 0..(extent.width - 1), y \in 0..(extent.height - 1),
           z \in 0..(extent.depth - 1) :
            /\ x * extent.depth * extent.height + z * extent.height + y + 1
                  \in 1..Len(result)
            /\ result[x * extent.depth * extent.height + z * extent.height + y + 1]
                  = ValueAt(origin.x + x, origin.y + y, origin.z + z)

C3_Witness ==
    /\ Returned
    /\ dim = 3
    /\ vector_width = 4
    /\ extent = [width |-> 2, height |-> 9, depth |-> 2]
    /\ noise.pipeline[1].kind = "Simplex"
    /\ result[2 * 9 + 1] # result[1]
    /\ execs = 12

IsSmallest(m, buf) ==
    /\ \E k \in 1..Len(buf) : buf[k] = m
    /\ \A k \in 1..Len(buf) : ~FLt(buf[k], m)

IsLargest(m, buf) ==
    /\ \E k \in 1..Len(buf) : buf[k] = m
    /\ \A k \in 1..Len(buf) : ~FGt(buf[k], m)

\* C4: for every generate_* call that returns a non-empty buffer, the reported
\* min is the smallest element of the buffer and the reported max the largest.
C4_MinMaxOfBuffer ==
    (Returned /\ Len(result) > 0) =>
        /\ IsSmallest(min_scalar, result)
        /\ IsLargest(max_scalar, result)

ZeroExtent ==
    \/ dim = 1 /\ extent.width = 0
    \/ dim = 2 /\ (extent.width = 0 \/ extent.height = 0)
    \/ dim = 3 /\ (extent.width = 0 \/ extent.height = 0 \/ extent.depth = 0)

\* C5: a generate_* call with a zero extent never evaluates the expression,
\* and returns an empty buffer with min = f32::MAX and max = f32::MIN.
C5_ZeroExtent ==
    ZeroExtent =>
        /\ execs = 0
        /\ Returned =>
              /\ result = <<>>
              /\ min_scalar = F(F32_MAX)
              /\ max_scalar = F(-F32_MAX)

C5_Witness ==
    /\ Returned
    /\ dim = 3
    /\ extent = [width |-> 2, height |-> 0, depth |-> 2]
    /\ outer = 2
    /\ result = <<>>

\* C17: for an expression that is constant(v), every element of the buffer a
\* generate_* call with a non-zero extent returns is v, and the reported min
\* and max are both v.
C17_ConstantBuffer ==
    (/\ Returned
     /\ Len(noise.pipeline) = 1
     /\ noise.pipeline[1].kind = "Constant"
     /\ Len(result) > 0) =>
        /\ \A k \in 1..Len(result) : result[k] = noise.pipeline[1].value
        /\ min_scalar = noise.pipeline[1].value
        /\ max_scalar = noise.pipeline[1].value

\* The extent the lanes run along: the width, or in generate_3d the height.
VectorisedExtent == IF dim = 3 THEN extent.height ELSE extent.width

\* A step through a final partial block.
PartialBlockStep ==
    /\ pc = "inner"
    /\ pc' # "inner"
    /\ VectorisedExtent % vector_width # 0

\* m is a smallest (a largest) of the candidates.
SmallestOf(m, candidates) == m \in candidates /\ \A c \in candidates : ~FLt(c, m)

LargestOf(m, candidates) == m \in candidates /\ \A c \in candidates : ~FGt(c, m)

\* C22: a final partial block evaluates one vector of N lanes, writes its
\* leading extent mod N lanes at the cursor and nothing else, and min and max
\* move only to values of those lanes (and, on return, of min_s and max_s).
C22_PartialBlock ==
    [][PartialBlockStep =>
          LET r == VectorisedExtent % vector_width
              f == execute
              folded_min == IF pc' = "done" THEN {min_s[j] : j \in Lanes} ELSE {}
              folded_max == IF pc' = "done" THEN {max_s[j] : j \in Lanes} ELSE {}
          IN  /\ Len(f) = vector_width
              /\ execs' = execs + 1
              /\ cursor' = cursor + r
              /\ Len(result') = Len(result)
              /\ \A k \in 1..Len(result) :
                    result'[k] = IF k > cursor /\ k <= cursor + r
                                 THEN f[k - cursor] ELSE result[k]
              /\ SmallestOf(min_scalar',
                            {min_scalar} \cup {f[j] : j \in 1..r} \cup folded_min)
              /\ LargestOf(max_scalar',
                           {max_scalar} \cup {f[j] : j \in 1..r} \cup folded_max)]_vars

C22_Witness ==
    /\ Returned
    /\ dim = 1
    /\ vector_width = 4
    /\ extent.width % vector_width # 0
    /\ execs = (extent.width \div vector_width) + 1
    /\ cursor = extent.width
    /\ \E j \in ((extent.width % vector_width) + 1)..vector_width :
          FLt(execute[j], min_scalar)

\* The cells of the buffer that hold a written value.
Written(buf) == {k \in 1..Len(buf) : buf[k] # Uninit}

\* C29: within a generate_* call the cells written so far are those below the
\* cursor; a step writes the cells from the old cursor up to the new one and
\* leaves the others alone; a full block starts with N cells left, a partial
\* block ends within the buffer; on return the cursor is the buffer's length
\* and every cell is written.
C29_CursorCoversBuffer ==
    [][pc # "idle" =>
          /\ cursor' >= cursor
          /\ cursor' <= Len(result)
          /\ Len(result') = Len(result)
          /\ Written(result) = 1..cursor
          /\ Written(result') = 1..cursor'
          /\ \A k \in 1..cursor : result'[k] = result[k]
          /\ (pc = "inner" /\ pc' = "inner" /\ execs' # execs)
                => (cursor' = cursor + vector_width /\ cursor + vector_width <= Len(result))
          /\ pc' = "done" => (cursor' = Len(result') /\ Written(result') = 1..Len(result'))]_vars

C29_Witness ==
    /\ Returned
    /\ dim = 2
    /\ vector_width = 4
    /\ extent.width = 9
    /\ extent.height = 2
    /\ cursor = 18
    /\ execs = 6
    /\ Written(result) = 1..18

(* ----------------------- claims on the dispatcher ---------------------- *)
\* The positions of the targets built for the running architecture whose
\* features the hardware (or the build) has.
Matching ==
    {i \in 1..Len(Targets) :
        /\ Targets[i].architecture = arch
        /\ Targets[i].features \subseteq (enabled \cup detected)}

Versions == {Targets[i] : i \in 1..Len(Targets)} \cup {DefaultVersion}

\* C9: whenever runtime dispatch runs, it returns the first target of the list
\* that is for the running architecture and has all its features detected, and
\* the default version if there is none; every resolution returns a version.
C9_FirstMatchingTier ==
    \A k \in Kernels : \A n \in 1..Len(resolutions[k]) :
        /\ resolutions[k][n].version \in Versions
        /\ resolutions[k][n].probed =>
              /\ Matching = {} => resolutions[k][n].version = DefaultVersion
              /\ Matching # {} =>
                    \E i \in Matching :
                        /\ \A j \in Matching : i <= j
                        /\ resolutions[k][n].version = Targets[i]

C9_Witness ==
    /\ arch = "x86_64"
    /\ detected = WithFeatures({"sse4.2"})
    /\ Len(resolutions["fbm"]) = 1
    /\ resolutions["fbm"][1] = [version |-> Targets[2], probed |-> TRUE]

C11_ConcurrentResolution ==
    \A t \in Threads :
        /\ threads[t].pc # "done" => threads[t].version = NoVersion
        /\ threads[t].pc = "done" =>
              /\ threads[t].version \in Versions
              /\ \A u \in Threads :
                    threads[u].pc = "done" => threads[u].version = threads[t].version

C11_Witness ==
    /\ arch = "x86"
    /\ detected = WithFeatures({"sse2"})
    /\ threads[1] = [pc |-> "done", i |-> 5, version |-> Targets[5]]
    /\ threads[2].pc = "chain"
    /\ threads[2].i = 3

\* What a returned call was asked.
Asked(h) == <<h.dim, h.origin, h.extent>>

\* C12: any two returned generate_* calls on the Noise that were asked the same
\* returned the same (values, min, max), whatever calls were made in between,
\* and the Noise is at every return what it is now.
C12_RepeatedCallsAgree ==
    \A a \in 1..Len(history) :
        /\ history[a].noise = noise
        /\ \A b \in 1..Len(history) :
              Asked(history[a]) = Asked(history[b]) =>
                  /\ history[a].result = history[b].result
                  /\ history[a].min = history[b].min
                  /\ history[a].max = history[b].max

C12_Witness ==
    /\ Len(history) = 3
    /\ Asked(history[1]) = Asked(history[3])
    /\ history[2].dim # history[1].dim
    /\ history[1].dim = 2
    /\ Len(history[3].result) = 10
    /\ history[3].min # history[3].max

(* ---------------------- claims on the evaluators ----------------------- *)
EvLanes == 1..Len(ev.out)

\* What a child of the evaluated node yields in lane j.
Sample(child, j) == EvalNode(child, ev.rank, LaneCoordinate(ev.block, j))

\* C13 as stated: in every lane of a Range node, a selector above high yields
\* the high branch's value and a selector below low the low branch's.
C13_RangeClipsBothWays ==
    ev.kind = "Range" =>
        \A j \in EvLanes :
            /\ FGt(Sample(ev.node.selector, j), ev.node.high)
                  => ev.out[j] = Sample(ev.node.high_source, j)
            /\ FLt(Sample(ev.node.selector, j), ev.node.low)
                  => ev.out[j] = Sample(ev.node.low_source, j)

\* C13: in every lane of a Range node of any rank, a selector below low yields
\* the low branch's value, and a selector above high that is not below low
\* yields the high branch's value.
C13_RangeClipsLowFirst ==
    ev.kind = "Range" =>
        \A j \in EvLanes :
            /\ FLt(Sample(ev.node.selector, j), ev.node.low)
                  => ev.out[j] = Sample(ev.node.low_source, j)
            /\ (/\ FGt(Sample(ev.node.selector, j), ev.node.high)
                /\ ~FLt(Sample(ev.node.selector, j), ev.node.low))
                  => ev.out[j] = Sample(ev.node.high_source, j)

C13_Witness ==
    /\ ev.kind = "Range"
    /\ ev.rank = 1
    /\ ev.node.selector = BaseNode
    /\ ev.node.low = Mk(-1, 2)
    /\ ev.node.high = Mk(1, 2)
    /\ ev.node.low_source = ConstantNode(F(-2))
    /\ ev.node.high_source = ConstantNode(F(3))
    /\ FLt(Sample(BaseNode, 1), ev.node.low)
    /\ FGt(Sample(BaseNode, 2), ev.node.high)
    /\ ev.out = <<F(-2), F(3)>>

\* C14: in every lane of a Lerp node of any rank the output is
\* low + (high - low) * t with t = (selector + 1) / 2.
C14_LerpBlend ==
    ev.kind = "Lerp" =>
        \A j \in EvLanes :
            LET t == FMul(FAdd(Sample(ev.node.selector, j), F(1)), Mk(1, 2))
                low == Sample(ev.node.low_source, j)
                high == Sample(ev.node.high_source, j)
            IN  ev.out[j] = FMulAdd(FSub(high, low), t, low)

\* C15: no call of a node evaluator panics.
C15_EvaluationNeverFails == ev.kind # "none" => ~ev.panicked

C18_AbsSquareNonNegative ==
    ev.kind \in {"Abs", "Square"} => \A j \in EvLanes : FLe(F(0), ev.out[j])

\* C18: every lane of an Abs or Square node's output whose source value is not
\* NaN is >= 0, for every rank.
C18_AbsSquareNonNegativeUnlessNaN ==
    ev.kind \in {"Abs", "Square"} =>
        \A j \in EvLanes :
            ~IsNaN(Sample(ev.node.source, j)) => FLe(F(0), ev.out[j])

C18_Witness ==
    /\ ev.kind = "Square"
    /\ ev.rank = 3
    /\ ev.node.source = ConstantNode(F(-2))
    /\ ev.out = <<F(4), F(4)>>

\* The coordinate of octave k: every axis of the rank times lacunarity^k.
OctaveCoordinate(c, k) ==
    Coordinates(ev.rank,
        [x |-> FMul(c.x, FPowi(ev.node.lacunarity, k)),
         y |-> FMul(c.y, FPowi(ev.node.lacunarity, k)),
         z |-> FMul(c.z, FPowi(ev.node.lacunarity, k))])

\* The samples of octaves k .. octaves - 1 added to acc in that order, octave
\* k weighted by scale * gain^k.
RECURSIVE WeightedSum(_, _, _)
WeightedSum(k, acc, c) ==
    IF k >= ev.node.octaves THEN acc
    ELSE WeightedSum(k + 1,
             FAdd(acc, FMul(EvalNode(ev.node.source, ev.rank, OctaveCoordinate(c, k)),
                            FMul(ev.node.scale, FPowi(ev.node.gain, k)))),
             c)

\* C20: an Fbm node's evaluator of any rank calls its source octaves times,
\* call k at the coordinate times lacunarity^k, and returns the samples' sum
\* from 0 on in call order, sample k weighted by scale * gain^k.
C20_FbmOctaveLoop ==
    ev.kind = "Fbm" =>
        \A j \in EvLanes :
            /\ Len(ev.calls[j]) = ev.node.octaves
            /\ \A k \in 0..(ev.node.octaves - 1) :
                  ev.calls[j][k + 1] = OctaveCoordinate(LaneCoordinate(ev.block, j), k)
            /\ ev.out[j] = WeightedSum(0, F(0), LaneCoordinate(ev.block, j))

C20_Witness ==
    /\ ev.kind = "Fbm"
    /\ ev.rank = 3
    /\ ev.node.octaves = 3
    /\ ev.node.lacunarity = F(2)
    /\ ev.node.gain = Mk(1, 2)
    /\ ev.node.source = BaseNode
    /\ Len(ev.calls[2]) = 3
    /\ ev.calls[2][3] = [x |-> F(16), y |-> F(4), z |-> F(8)]
    /\ ev.out[1] # ev.out[2]

\* The band of a Range node: low < high and the lane's selector within it.
InBand(j) ==
    /\ FLt(ev.node.low, ev.node.high)
    /\ FLe(ev.node.low, Sample(ev.node.selector, j))
    /\ FLe(Sample(ev.node.selector, j), ev.node.high)

\* L + (H - L) * (s - low) / (high - low) in lane j.
BandValue(j) ==
    FAdd(Sample(ev.node.low_source, j),
         FMul(FSub(Sample(ev.node.high_source, j), Sample(ev.node.low_source, j)),
              FDiv(FSub(Sample(ev.node.selector, j), ev.node.low),
                   FSub(ev.node.high, ev.node.low))))

C30_RangeLowTakesPrecedence ==
    ev.kind = "Range" =>
        \A j \in EvLanes :
            (/\ FGt(Sample(ev.node.selector, j), ev.node.high)
             /\ FLt(Sample(ev.node.selector, j), ev.node.low))
                => ev.out[j] = Sample(ev.node.low_source, j)

C30_Witness ==
    /\ ev.kind = "Range"
    /\ ev.node.low = Mk(1, 2)
    /\ ev.node.high = Mk(-1, 2)
    /\ ev.node.selector = ConstantNode(F(0))
    /\ ev.node.low_source = ConstantNode(F(-2))
    /\ ev.node.high_source = ConstantNode(F(3))
    /\ ev.out = <<F(-2), F(-2)>>

(* -------------------- claims on the skipped dispatch ------------------- *)
\* The positions of the tiers listed for the build's architecture.
TiersOfArch == {i \in 1..Len(Targets) : Targets[i].architecture = arch}

\* The first-listed of them.
FirstTier == Targets[CHOOSE i \in TiersOfArch : \A j \in TiersOfArch : i <= j]

\* C25: a resolution skips the probe exactly when the build's architecture
\* has no tier or the build enables every feature of its first-listed tier,
\* and the version it then returns has the features and the lane width of the
\* version the probe would have returned.
C25_SkipMatchesProbe ==
    \A k \in Kernels : \A n \in 1..Len(resolutions[k]) :
        /\ ~resolutions[k][n].probed
              <=> (TiersOfArch = {} \/ FirstTier.features \subseteq enabled)
        /\ ~resolutions[k][n].probed =>
              /\ FEATURES(resolutions[k][n].version) = FEATURES(pointer_dispatcher_fn)
              /\ N(resolutions[k][n].version) = N(pointer_dispatcher_fn)

C25_Witness ==
    /\ arch = "x86"
    /\ enabled = WithFeatures({"avx2", "fma"})
    /\ Len(resolutions["fbm"]) = 1
    /\ resolutions["fbm"][1] = [version |-> DefaultVersion, probed |-> FALSE]
    /\ pointer_dispatcher_fn = Targets[3]
    /\ N(DefaultVersion) = 8

\* The version of generate_* the dispatcher returns in this process.
SelectedVersion ==
    IF TiersOfArch = {} \/ FirstTier.features \subseteq enabled
    THEN DefaultVersion
    ELSE pointer_dispatcher_fn

\* C26: the lane width of a generate_* call is the suggested f32 vector width
\* of the selected version, or 1 when it suggests none; it is at least 1 and
\* stays the same through the call, and the coordinate block, the vector the
\* pipeline returns, the accumulators, the stride of a full block and the
\* remainder are all of that width.
C26_OneLaneWidth ==
    [][LET suggested == suggested_simd_width(FEATURES(SelectedVersion))
       IN  /\ vector_width = IF suggested # 0 THEN suggested ELSE 1
           /\ vector_width >= 1
           /\ vector_width' = vector_width
           /\ pc' # "idle" =>
                 /\ Len(pipeline_x') = vector_width
                 /\ Len(pipeline_y') = vector_width
                 /\ Len(min_s') = vector_width
                 /\ Len(max_s') = vector_width
           /\ pc = "inner" => Len(execute) = vector_width
           /\ (pc = "inner" /\ pc' = "inner") =>
                 /\ cursor' = cursor + vector_width
                 /\ \A j \in Lanes : pipeline_x'[j] = pipeline_x[j] + vector_width
           /\ (pc = "inner" /\ pc' # "inner") =>
                 cursor' = cursor + (extent.width % vector_width)]_vars

C26_Witness ==
    /\ arch = "x86_64"
    /\ enabled = WithFeatures({"sse2"})
    /\ detected = WithFeatures({"avx2", "fma"})
    /\ vector_width = 8
    /\ Returned
    /\ dim = 2
    /\ extent.width = 9
    /\ extent.height = 2
    /\ execs = 4
    /\ cursor = 18

(* ------------------------- claims on the Rng --------------------------- *)
\* What the i-th next() of a generator fresh from Rng::new(seed) returns.
FreshOutput(seed_, i) == Mix((seed_ + i * RngIncrement) % RngModulus)

\* C27: the stored seed is always the one the generator was built with; every
\* execute() starts with the current seed equal to it; and the outputs drawn
\* during any execute() are those of a fresh generator, in order.
C27_ResetEveryExecute ==
    [][/\ rng.seed = noise.seed % RngModulus
       /\ rng'.seed = rng.seed
       /\ execs' = execs + 1 => rng'.current_seed = rng'.seed
       /\ \A i \in 1..Len(drawn') : drawn'[i] = FreshOutput(noise.seed, i)]_vars

C27_Witness ==
    /\ noise.seed = 3
    /\ execs = 3
    /\ Len(drawn) = 2
    /\ rng.seed = 3
    /\ rng.current_seed # rng.seed
    /\ drawn = <<FreshOutput(3, 1), FreshOutput(3, 2)>>
    /\ drawn[1] # drawn[2]

====
